---- MODULE Spec2Model ----
(***************************************************************************)
(* A model of the code review service: the static analyser                 *)
(* (reviewer/analyzers.py), the narrative reviewer (reviewer/ai_checker.py)*)
(* and the four HTTP handlers (reviewer/views.py) over the CodeReview      *)
(* table (reviewer/models.py).                                             *)
(*                                                                         *)
(* Text is a sequence of tokens.  A token stands for the characters it     *)
(* spells, "pad" for a run of 114 letters 'a', "\n" for the line break.    *)
(* Formatted strings (f-strings) are sequences of their pieces.  Numbers   *)
(* that the code rounds to two decimals are held in hundredths.            *)
(***************************************************************************)
EXTENDS Integers, Sequences, FiniteSets, TLC

VARIABLES
    an,       \* the CodeAnalyzer under study: its code and language fields
    lib,      \* what radon's cc_visit and mi_visit do for an.code
    issues,   \* the contents of the list object an.issues
    held,     \* the summaries get_analysis_summary has returned, oldest first
    calls,    \* number of method calls made on the analyzer
    db,       \* the CodeReview table, in insertion order
    resp,     \* the HTTP response of the last request
    eff       \* what the last request did: handler, validity, calls made

vars == <<an, lib, issues, held, calls, db, resp, eff>>

---------------------------------------------------------------------------
(* Bounds of the model *)

MaxLines == 2
MaxFuncs == 2
MaxCalls == 2
MaxRecords == 2
MaxClock == 1

(* Constants of the program *)

LongLine == 120
HighComplexity == 10
HistoryLimit == 20

---------------------------------------------------------------------------
(* Text *)

NL == "\n"

TokenWidth(t) ==
    CASE t = "pad" -> 114
      [] t = "except" -> 6
      [] t \in {"FIXME", "print"} -> 5
      [] t = "TODO" -> 4
      [] OTHER -> 1

WordTokens == {"x", "pad", "TODO", "FIXME", "print", "except"}

IsSpace(t) == t \in {" ", NL}

SetMin(S) == CHOOSE i \in S : \A j \in S : i <= j
SetMax(S) == CHOOSE i \in S : \A j \in S : j <= i

RECURSIVE StrLen(_)
StrLen(s) == IF s = <<>> THEN 0 ELSE TokenWidth(Head(s)) + StrLen(Tail(s))

\* str.split('\n'): always at least one piece
RECURSIVE Split(_)
Split(s) ==
    LET brk == {i \in 1..Len(s) : s[i] = NL}
    IN  IF brk = {} THEN <<s>>
        ELSE <<SubSeq(s, 1, SetMin(brk) - 1)>>
                 \o Split(SubSeq(s, SetMin(brk) + 1, Len(s)))

\* str.strip()
Strip(s) ==
    LET keep == {i \in 1..Len(s) : ~IsSpace(s[i])}
    IN  IF keep = {} THEN <<>> ELSE SubSeq(s, SetMin(keep), SetMax(keep))

\* '\n'.join(lines)
RECURSIVE Join(_)
Join(ls) ==
    IF Len(ls) = 1 THEN ls[1] ELSE ls[1] \o <<NL>> \o Join(Tail(ls))

\* 'TODO' in line or 'FIXME' in line
HasTodo(line) == \E i \in 1..Len(line) : line[i] = "TODO" \/ line[i] = "FIXME"

\* re.search(r'\bprint\s*\(', line)
HasPrintCall(line) ==
    \E i \in 1..Len(line) : \E j \in (i + 1)..Len(line) :
        /\ line[i] = "print"
        /\ (i = 1 \/ line[i - 1] \notin WordTokens)
        /\ line[j] = "("
        /\ \A k \in (i + 1)..(j - 1) : line[k] = " "

\* line.strip().startswith('#')
IsComment(line) == Strip(line) # <<>> /\ Strip(line)[1] = "#"

\* 'except:' in line or 'except :' in line
HasBareExcept(line) ==
    \E i \in 1..Len(line) :
        /\ line[i] = "except"
        /\ \/ (i + 1 <= Len(line) /\ line[i + 1] = ":")
           \/ (i + 2 <= Len(line) /\ line[i + 1] = " " /\ line[i + 2] = ":")

\* round(num / den, 2), in hundredths
Round2(num, den) ==
    LET q == (100 * num) \div den
        r == (100 * num) % den
    IN  IF 2 * r < den THEN q
        ELSE IF 2 * r > den THEN q + 1
        ELSE IF q % 2 = 0 THEN q ELSE q + 1

---------------------------------------------------------------------------
(* CodeAnalyzer *)

\* the test of one scan pass on one line
Hit(kind, line) ==
    CASE kind = "style" -> StrLen(line) > LongLine
      [] kind = "todo" -> HasTodo(line)
      [] kind = "debug" -> HasPrintCall(line) /\ ~IsComment(line)
      [] kind = "error_handling" -> HasBareExcept(line)

IssueMessage(kind, i, line) ==
    CASE kind = "style" ->
            <<"Line ", ToString(i), " exceeds 120 characters (",
              ToString(StrLen(line)), " chars)">>
      [] kind = "todo" -> <<"Line ", ToString(i), " contains TODO/FIXME comment">>
      [] kind = "debug" ->
            <<"Line ", ToString(i),
              " contains print statement - consider using logging">>
      [] kind = "error_handling" ->
            <<"Line ", ToString(i),
              " has bare except clause - specify exception type">>

LineIssue(kind, i, line) ==
    [type |-> kind, line |-> i, message |-> IssueMessage(kind, i, line)]

\* for i, line in enumerate(lines, 1): if <test>: self.issues.append(...)
RECURSIVE ScanPass(_, _, _, _)
ScanPass(kind, lines, i, acc) ==
    IF i > Len(lines) THEN acc
    ELSE ScanPass(kind, lines, i + 1,
                  IF Hit(kind, lines[i])
                  THEN Append(acc, LineIssue(kind, i, lines[i]))
                  ELSE acc)

\* a stable insertion of one issue by line number
RECURSIVE InsertByLine(_, _)
InsertByLine(sorted, e) ==
    IF sorted = <<>> THEN <<e>>
    ELSE IF e.line < Head(sorted).line THEN <<e>> \o sorted
    ELSE <<Head(sorted)>> \o InsertByLine(Tail(sorted), e)

RECURSIVE SortByLine(_)
SortByLine(s) ==
    IF s = <<>> THEN <<>>
    ELSE InsertByLine(SortByLine(SubSeq(s, 1, Len(s) - 1)), s[Len(s)])

\* check_common_issues as it would be if the passes' findings were merged
\* in line order
CheckCommonIssuesSorted(code, language, iss) ==
    LET lines == Split(code)
        a == ScanPass("style", lines, 1, <<>>)
        b == ScanPass("todo", lines, 1, a)
        c == IF language = "python" THEN ScanPass("debug", lines, 1, b) ELSE b
        d == IF language = "python" THEN ScanPass("error_handling", lines, 1, c) ELSE c
    IN  iss \o SortByLine(d)

\* the contents of self.issues after check_common_issues, "iss" before it
CheckCommonIssues(code, language, iss) ==
    LET lines == Split(code)
        a == ScanPass("style", lines, 1, iss)
        b == ScanPass("todo", lines, 1, a)
        c == IF language = "python" THEN ScanPass("debug", lines, 1, b) ELSE b
    IN  IF language = "python" THEN ScanPass("error_handling", lines, 1, c) ELSE c

ComplexityIssue(r) ==
    [type |-> "high_complexity", function |-> r.name, complexity |-> r.complexity,
     message |-> <<"Function '", r.name, "' has high cyclomatic complexity (",
                   ToString(r.complexity), "). Consider refactoring.">>]

\* the flagging loop as it would be with the threshold included (>= 10)
RECURSIVE FlagLoopInclusive(_, _, _)
FlagLoopInclusive(results, i, acc) ==
    IF i > Len(results) THEN acc
    ELSE FlagLoopInclusive(results, i + 1,
                  IF results[i].complexity >= HighComplexity
                  THEN Append(acc, ComplexityIssue(results[i]))
                  ELSE acc)

\* for r in results: if r.complexity > 10: self.issues.append(...)
RECURSIVE FlagLoop(_, _, _)
FlagLoop(results, i, acc) ==
    IF i > Len(results) THEN acc
    ELSE FlagLoop(results, i + 1,
                  IF results[i].complexity > HighComplexity
                  THEN Append(acc, ComplexityIssue(results[i]))
                  ELSE acc)

RECURSIVE SumComplexity(_)
SumComplexity(results) ==
    IF results = <<>> THEN 0
    ELSE Head(results).complexity + SumComplexity(Tail(results))

ZeroComplexity == [average_complexity |-> 0, max_complexity |-> 0]

\* the returned dict and the contents of self.issues afterwards
AnalyzeComplexity(language, cc, iss) ==
    IF language # "python" THEN [ret |-> ZeroComplexity, issues |-> iss]
    ELSE IF cc.raises THEN
        [ret |-> [average_complexity |-> 0, max_complexity |-> 0, error |-> cc.msg],
         issues |-> iss]
    ELSE IF cc.results = <<>> THEN [ret |-> ZeroComplexity, issues |-> iss]
    ELSE [ret |-> [average_complexity |->
                       Round2(SumComplexity(cc.results), Len(cc.results)),
                   max_complexity |->
                       SetMax({cc.results[i].complexity : i \in 1..Len(cc.results)})],
          issues |-> FlagLoop(cc.results, 1, iss)]

\* calculate_maintainability_index as it would be without the language test
CalculateMaintainabilityIndexAnyLanguage(language, mi) ==
    IF mi.raises THEN 0
    ELSE IF mi.value # 0 THEN Round2(mi.value, 1000) ELSE 0

CalculateMaintainabilityIndex(language, mi) ==
    IF language # "python" THEN 0
    ELSE IF mi.raises THEN 0
    ELSE IF mi.value # 0 THEN Round2(mi.value, 1000) ELSE 0

\* get_analysis_summary as it would be if the issues were counted before
\* check_common_issues ran
GetAnalysisSummaryEarlyCount(code, language, cc, mi, iss) ==
    LET c == AnalyzeComplexity(language, cc, iss)
        after == CheckCommonIssues(code, language, c.issues)
        m == CalculateMaintainabilityIndex(language, mi)
    IN  [dict |-> [complexity |-> c.ret,
                   maintainability_index |-> m,
                   issues |-> "self.issues",
                   total_issues |-> Len(c.issues),
                   lines_of_code |-> Len(Split(code))],
         list |-> after]

\* The returned dict; its 'issues' entry is the list object self.issues
\* itself, whose contents after the call are in "list".
GetAnalysisSummary(code, language, cc, mi, iss) ==
    LET c == AnalyzeComplexity(language, cc, iss)
        after == CheckCommonIssues(code, language, c.issues)
        m == CalculateMaintainabilityIndex(language, mi)
    IN  [dict |-> [complexity |-> c.ret,
                   maintainability_index |-> m,
                   issues |-> "self.issues",
                   total_issues |-> Len(after),
                   lines_of_code |-> Len(Split(code))],
         list |-> after]

---------------------------------------------------------------------------
(* AICodeChecker *)

\* AICodeChecker(): the client constructor may raise (no API key)
AICodeCheckerInit(ai) ==
    IF ai.stage = "init" THEN [raised |-> TRUE, msg |-> ai.msg]
    ELSE [raised |-> FALSE, msg |-> ""]

\* review_code as it would be without its try/except
AICodeCheckerReviewCodeUncaught(ai) ==
    IF ai.stage = "ok"
    THEN [raised |-> FALSE, value |-> <<ai.text>>, msg |-> "", calls |-> 1]
    ELSE [raised |-> TRUE, value |-> <<>>, msg |-> ai.msg, calls |-> 1]

\* review_code as it would be if a failed request were sent once more
AICodeCheckerReviewCodeRetry(ai) ==
    IF ai.stage = "ok"
    THEN [raised |-> FALSE, value |-> <<ai.text>>, msg |-> "", calls |-> 1]
    ELSE [raised |-> FALSE, value |-> <<"AI Review unavailable: ", ai.msg>>,
          msg |-> "", calls |-> 2]

\* AICodeChecker.review_code: one request to the provider; the completion,
\* or the placeholder when the request or the reading of its response raises
AICodeCheckerReviewCode(ai) ==
    IF ai.stage = "ok"
    THEN [raised |-> FALSE, value |-> <<ai.text>>, msg |-> "", calls |-> 1]
    ELSE [raised |-> FALSE, value |-> <<"AI Review unavailable: ", ai.msg>>,
          msg |-> "", calls |-> 1]

---------------------------------------------------------------------------
(* CodeSubmissionSerializer *)

\* code = CharField() as it would be with trim_whitespace=False and
\* allow_blank=True
ValidateCodeUntrimmed(f) ==
    CASE f.kind = "absent" -> [ok |-> FALSE, value |-> <<>>, error |-> "required"]
      [] f.kind = "null" -> [ok |-> FALSE, value |-> <<>>, error |-> "null"]
      [] f.kind = "list" -> [ok |-> FALSE, value |-> <<>>, error |-> "invalid"]
      [] OTHER -> [ok |-> TRUE, value |-> f.text, error |-> ""]

\* code = CharField(): required, not null, a string, not blank once trimmed
ValidateCode(f) ==
    CASE f.kind = "absent" -> [ok |-> FALSE, value |-> <<>>, error |-> "required"]
      [] f.kind = "null" -> [ok |-> FALSE, value |-> <<>>, error |-> "null"]
      [] f.kind = "list" -> [ok |-> FALSE, value |-> <<>>, error |-> "invalid"]
      [] f.kind = "text" /\ Strip(f.text) = <<>> ->
            [ok |-> FALSE, value |-> <<>>, error |-> "blank"]
      [] OTHER -> [ok |-> TRUE, value |-> Strip(f.text), error |-> ""]

\* language = CharField(default='python')
ValidateLanguage(f) ==
    CASE f.kind = "absent" -> [ok |-> TRUE, value |-> "python", error |-> ""]
      [] f.kind = "text" /\ f.text = "" ->
            [ok |-> FALSE, value |-> "", error |-> "blank"]
      [] OTHER -> [ok |-> TRUE, value |-> f.text, error |-> ""]

\* use_ai = BooleanField(default=True)
ValidateUseAi(f) ==
    CASE f = "absent" -> [ok |-> TRUE, value |-> TRUE, error |-> ""]
      [] f = "true" -> [ok |-> TRUE, value |-> TRUE, error |-> ""]
      [] f = "false" -> [ok |-> TRUE, value |-> FALSE, error |-> ""]
      [] OTHER -> [ok |-> FALSE, value |-> FALSE, error |-> "invalid"]

\* serializer.is_valid(), serializer.errors and serializer.validated_data
ValidateSubmission(req) ==
    LET c == ValidateCode(req.code)
        l == ValidateLanguage(req.language)
        u == ValidateUseAi(req.use_ai)
    IN  [ok |-> c.ok /\ l.ok /\ u.ok,
         errors |-> {<<"code", c.error>> : x \in {1} \ {IF c.ok THEN 1 ELSE 0}}
                    \cup {<<"language", l.error>> : x \in {1} \ {IF l.ok THEN 1 ELSE 0}}
                    \cup {<<"use_ai", u.error>> : x \in {1} \ {IF u.ok THEN 1 ELSE 0}},
         code |-> c.value, language |-> l.value, use_ai |-> u.value]

---------------------------------------------------------------------------
(* CodeReview table and CodeReviewSerializer *)

\* objects.create as it would be if it were update_or_create keyed by code
CreateReviewUpsert(table, code, language, score, feedback, found, now) ==
    LET row == [id |-> Len(table) + 1, code |-> code, language |-> language,
                complexity_score |-> score, ai_feedback |-> feedback,
                issues_found |-> found, created_at |-> now]
        same == {i \in 1..Len(table) : table[i].code = code}
    IN  IF same = {} THEN Append(table, row)
        ELSE [table EXCEPT ![SetMin(same)] = [row EXCEPT !.id = SetMin(same)]]

\* CodeReview.objects.create(...): a new row, its id the next key, its
\* created_at the wall clock's reading (auto_now_add)
CreateReview(table, code, language, score, feedback, found, now) ==
    Append(table, [id |-> Len(table) + 1, code |-> code, language |-> language,
                   complexity_score |-> score, ai_feedback |-> feedback,
                   issues_found |-> found, created_at |-> now])

\* CodeReviewSerializer(review).data
Serialize(row) ==
    [id |-> row.id, code |-> row.code, language |-> row.language,
     complexity_score |-> row.complexity_score, ai_feedback |-> row.ai_feedback,
     issues_found |-> row.issues_found, created_at |-> row.created_at]

\* ordering = ['-created_at']: rows of equal created_at come in an order the
\* database chooses, here by id, ascending or descending
Precedes(a, b, tie) ==
    \/ a.created_at > b.created_at
    \/ /\ a.created_at = b.created_at
       /\ IF tie = "id_asc" THEN a.id < b.id ELSE a.id > b.id

\* CodeReview.objects.all()
AllReviews(table, tie) ==
    LET rows == {table[i] : i \in 1..Len(table)}
    IN  [k \in 1..Len(table) |->
            CHOOSE r \in rows :
                Cardinality({q \in rows : Precedes(q, r, tie)}) = k - 1]

---------------------------------------------------------------------------
(* The handlers of views.py *)

\* what the provider does with a request: the client cannot be built, the
\* request fails, the response has no choices, or a completion comes back
AiOutcomes ==
    { [stage |-> "init", msg |-> "api_key must be set", text |-> ""],
      [stage |-> "call", msg |-> "Connection error.", text |-> ""],
      [stage |-> "parse", msg |-> "list index out of range", text |-> ""],
      [stage |-> "ok", msg |-> "", text |-> "Looks good."] }

\* what radon measures for the submitted code
ServiceLib ==
    { [cc |-> [raises |-> FALSE, msg |-> "",
               results |-> <<[name |-> "f", complexity |-> HighComplexity + 1]>>],
       mi |-> [raises |-> FALSE, value |-> 67891]] }

\* no provider outcome: the request did not ask for a narrative
NoAi == [stage |-> "none", msg |-> "", text |-> ""]

\* ai_feedback and the number of requests sent to the provider
ReviewFeedback(use_ai, ai) ==
    IF ~use_ai THEN [text |-> <<>>, calls |-> 0]
    ELSE IF AICodeCheckerInit(ai).raised
    THEN [text |-> <<"AI review not available: ", AICodeCheckerInit(ai).msg>>,
          calls |-> 0]
    ELSE LET r == AICodeCheckerReviewCode(ai)
         IN  IF r.raised
             THEN [text |-> <<"AI review not available: ", r.msg>>, calls |-> r.calls]
             ELSE [text |-> r.value, calls |-> r.calls]

\* POST /review/.  What radon measures, what the provider answers and what
\* the wall clock reads at insertion are the environment's choice; nothing in
\* the code makes a reading larger than the one before.
ReviewCode(req) ==
    /\ UNCHANGED <<an, lib, issues, held, calls>>
    /\ \E v \in {ValidateSubmission(req)} :
        IF ~v.ok
        THEN /\ resp' = [status |-> 400, body |-> v.errors]
             /\ eff' = [op |-> "review_code", req |-> req, ai |-> NoAi,
                        analysed |-> 0, aiCalls |-> 0]
             /\ UNCHANGED db
        ELSE /\ Len(db) < MaxRecords
             /\ \E libo \in ServiceLib,
                   ai \in IF v.use_ai THEN AiOutcomes ELSE {NoAi},
                   now \in 0..MaxClock :
                 \E a \in {GetAnalysisSummary(v.code, v.language,
                                              libo.cc, libo.mi, <<>>)},
                    fb \in {ReviewFeedback(v.use_ai, ai)} :
                     \E table \in {CreateReview(db, v.code, v.language,
                                                a.dict.complexity.average_complexity,
                                                fb.text, a.list, now)} :
                         /\ db' = table
                         /\ resp' =
                              [status |-> 201,
                               body |-> [id |-> table[Len(table)].id,
                                         language |-> v.language,
                                         analysis |->
                                             [complexity |-> a.dict.complexity,
                                              maintainability_index |->
                                                  a.dict.maintainability_index,
                                              lines_of_code |-> a.dict.lines_of_code,
                                              total_issues |-> a.dict.total_issues],
                                         issues |-> a.list,
                                         ai_feedback |-> fb.text,
                                         created_at |->
                                             table[Len(table)].created_at]]
                         /\ eff' = [op |-> "review_code", req |-> req, ai |-> ai,
                                    analysed |-> 1, aiCalls |-> fb.calls]

\* GET /reviews/
GetReviewHistory(tie) ==
    /\ LET reviews == AllReviews(db, tie)
           first == SubSeq(reviews, 1,
                           IF Len(reviews) < HistoryLimit THEN Len(reviews)
                           ELSE HistoryLimit)
       IN  resp' = [status |-> 200,
                    body |-> [k \in 1..Len(first) |-> Serialize(first[k])]]
    /\ eff' = [op |-> "get_review_history"]
    /\ UNCHANGED <<an, lib, issues, held, calls, db>>

\* GET /review/<review_id>/
GetReviewDetail(review_id) ==
    /\ LET found == {i \in 1..Len(db) : db[i].id = review_id}
       IN  IF found # {}
           THEN resp' = [status |-> 200, body |-> Serialize(db[SetMin(found)])]
           ELSE resp' = [status |-> 404, body |-> [error |-> "Review not found"]]
    /\ eff' = [op |-> "get_review_detail", id |-> review_id]
    /\ UNCHANGED <<an, lib, issues, held, calls, db>>

\* GET /health/
HealthCheck ==
    /\ resp' = [status |-> 200,
                body |-> [status |-> "healthy",
                          message |-> "AI Code Review Assistant is running"]]
    /\ eff' = [op |-> "health_check"]
    /\ UNCHANGED <<an, lib, issues, held, calls, db>>

---------------------------------------------------------------------------
(* Inputs of the analyser *)

SampleLines ==
    { <<>>,
      <<"#", " ", "TODO">>,
      <<"print", " ", "(">>,
      <<" ", "#", "print", "(">>,
      <<"x", "print", "(">>,
      <<"pad", "except">>,
      <<"pad", "except", " ", ":">>,
      <<"print", "(", "FIXME", "except", ":">> }

RECURSIVE SeqsUpTo(_, _)
SeqsUpTo(S, n) ==
    IF n = 0 THEN {<<>>}
    ELSE LET shorter == SeqsUpTo(S, n - 1)
         IN  shorter \cup {Append(q, e) : q \in shorter, e \in S}

Codes == {Join(ls) : ls \in SeqsUpTo(SampleLines, MaxLines) \ {<<>>}}

Languages == {"python", "javascript"}

Blocks == [name : {"f", "g"}, complexity : {HighComplexity, HighComplexity + 1}]

CcOutcomes ==
    {[raises |-> TRUE, msg |-> "invalid syntax", results |-> <<>>]}
        \cup {[raises |-> FALSE, msg |-> "", results |-> rs] :
                 rs \in SeqsUpTo(Blocks, MaxFuncs)}

\* mi_visit: an error, or an index in thousandths
MiOutcomes ==
    {[raises |-> TRUE, value |-> 0]}
        \cup {[raises |-> FALSE, value |-> v] : v \in {0, 67891}}

NoRequest == [op |-> "none"]

---------------------------------------------------------------------------
(* The analyser as an object: construction, then calls of its methods *)

\* CodeAnalyzer(code, language)
InitAnalyzer ==
    /\ an \in [code : Codes, language : Languages]
    /\ lib \in [cc : CcOutcomes, mi : MiOutcomes]
    /\ issues = <<>>
    /\ held = <<>>
    /\ calls = 0
    /\ db = <<>>
    /\ resp = NoRequest
    /\ eff = NoRequest

AnalyzeComplexityCall ==
    /\ calls < MaxCalls
    /\ issues' = AnalyzeComplexity(an.language, lib.cc, issues).issues
    /\ calls' = calls + 1
    /\ UNCHANGED <<an, lib, held, db, resp, eff>>

CheckCommonIssuesCall ==
    /\ calls < MaxCalls
    /\ issues' = CheckCommonIssues(an.code, an.language, issues)
    /\ calls' = calls + 1
    /\ UNCHANGED <<an, lib, held, db, resp, eff>>

CalculateMaintainabilityIndexCall ==
    /\ calls < MaxCalls
    /\ calls' = calls + 1
    /\ UNCHANGED <<an, lib, issues, held, db, resp, eff>>

GetAnalysisSummaryCall ==
    /\ calls < MaxCalls
    /\ LET r == GetAnalysisSummary(an.code, an.language, lib.cc, lib.mi, issues)
       IN  /\ issues' = r.list
           /\ held' = Append(held, r.dict)
    /\ calls' = calls + 1
    /\ UNCHANGED <<an, lib, db, resp, eff>>

NextAnalyzer ==
    \/ AnalyzeComplexityCall
    \/ CheckCommonIssuesCall
    \/ CalculateMaintainabilityIndexCall
    \/ GetAnalysisSummaryCall

SpecAnalyzer == InitAnalyzer /\ [][NextAnalyzer]_vars

\* analyzer = CodeAnalyzer(code, language); analyzer.get_analysis_summary()
Analyze ==
    /\ calls = 0
    /\ GetAnalysisSummaryCall

SpecSummary == InitAnalyzer /\ [][Analyze]_vars

\* the value of a held summary's 'issues' entry: the list it refers to
IssuesOf(summary) == IF summary.issues = "self.issues" THEN issues ELSE <<>>

---------------------------------------------------------------------------
(* The service: requests arrive one at a time, in any order *)

ValidText == <<" ", "#", " ", "TODO", NL, "print", "(", NL>>

Field(kind, text) == [kind |-> kind, text |-> text]

Requests ==
    { [code |-> Field("text", ValidText), language |-> Field("absent", ""),
       use_ai |-> "absent"],
      [code |-> Field("text", ValidText), language |-> Field("text", "javascript"),
       use_ai |-> "false"],
      [code |-> Field("absent", <<>>), language |-> Field("absent", ""),
       use_ai |-> "absent"],
      [code |-> Field("null", <<>>), language |-> Field("text", "javascript"),
       use_ai |-> "false"],
      [code |-> Field("text", <<" ", NL>>), language |-> Field("absent", ""),
       use_ai |-> "true"],
      [code |-> Field("text", ValidText), language |-> Field("text", ""),
       use_ai |-> "absent"],
      [code |-> Field("text", ValidText), language |-> Field("absent", ""),
       use_ai |-> "maybe"] }

ReviewIds == 1..(MaxRecords + 1)

Init ==
    /\ db = <<>>
    /\ resp = NoRequest
    /\ eff = NoRequest
    /\ an = [code |-> <<>>, language |-> "python"]
    /\ lib = [cc |-> [raises |-> FALSE, msg |-> "", results |-> <<>>],
              mi |-> [raises |-> FALSE, value |-> 0]]
    /\ issues = <<>>
    /\ held = <<>>
    /\ calls = 0

Next ==
    \/ \E req \in Requests : ReviewCode(req)
    \/ \E tie \in {"id_asc", "id_desc"} : GetReviewHistory(tie)
    \/ \E review_id \in ReviewIds : GetReviewDetail(review_id)
    \/ HealthCheck

Spec == Init /\ [][Next]_vars

---------------------------------------------------------------------------
(* Properties of the analysis summary (SpecSummary, SpecAnalyzer) *)

IsHighComplexity(e) == e.type = "high_complexity"
IsOverThreshold(r) == r.complexity > 10

GroupRank(e) ==
    CASE e.type = "high_complexity" -> 1
      [] e.type = "style" -> 2
      [] e.type = "todo" -> 3
      [] e.type = "debug" -> 4
      [] e.type = "error_handling" -> 5

\* C1: the summary that get_analysis_summary returns counts exactly the
\* issues of its issue list, whatever the code and the language and also
\* when radon fails.
TotalIssuesIsLength ==
    \A k \in 1..Len(held) : held[k].total_issues = Len(IssuesOf(held[k]))

TotalIssuesWitness ==
    /\ Len(held) = 1
    /\ an.language = "python"
    /\ lib.cc.raises
    /\ lib.mi.raises
    /\ held[1].total_issues >= 3

\* C4: for a language other than 'python' the summary has average and
\* maximum complexity 0 and maintainability index 0, whatever the code and
\* whatever radon would have measured.
NonPythonIsZero ==
    \A k \in 1..Len(held) :
        an.language # "python" =>
            /\ DOMAIN held[k].complexity = {"average_complexity", "max_complexity"}
            /\ held[k].complexity.average_complexity = 0
            /\ held[k].complexity.max_complexity = 0
            /\ held[k].maintainability_index = 0

NonPythonWitness ==
    /\ Len(held) = 1
    /\ an.language = "javascript"
    /\ ~lib.cc.raises
    /\ \E i \in 1..Len(lib.cc.results) : lib.cc.results[i].complexity > 10
    /\ ~lib.mi.raises
    /\ lib.mi.value > 0
    /\ Len(Split(an.code)) = 2

\* C5: in a summary's issue list the high_complexity issues come first, then
\* the style, todo, debug and error_handling issues, in this order of groups;
\* within each line-scan group the line numbers increase strictly.
IssueGroupOrder ==
    \A k \in 1..Len(held) :
        LET L == IssuesOf(held[k])
        IN  \A i, j \in 1..Len(L) :
                i < j =>
                    /\ GroupRank(L[i]) <= GroupRank(L[j])
                    /\ (L[i].type = L[j].type /\ ~IsHighComplexity(L[i]))
                           => L[i].line < L[j].line

\* a summary whose list is not in line order: a later group repeats an
\* earlier line
IssueGroupOrderWitness ==
    /\ Len(held) = 1
    /\ \E i, j \in 1..Len(issues) :
           /\ i < j
           /\ IsHighComplexity(issues[1])
           /\ ~IsHighComplexity(issues[i])
           /\ issues[i].line > issues[j].line
    /\ {issues[i].type : i \in 1..Len(issues)} =
           {"high_complexity", "style", "todo", "debug", "error_handling"}

\* C6: when radon measures python code, the issue list gets exactly one
\* high_complexity issue per measured function of complexity above 10, with
\* that function's name and complexity, and none for a function of
\* complexity 10 or less.
HighComplexityFlagged ==
    \A k \in 1..Len(held) :
        (an.language = "python" /\ ~lib.cc.raises) =>
            LET H == SelectSeq(IssuesOf(held[k]), IsHighComplexity)
                F == SelectSeq(lib.cc.results, IsOverThreshold)
            IN  /\ Len(H) = Len(F)
                /\ \A i \in 1..Len(H) :
                       /\ H[i].function = F[i].name
                       /\ H[i].complexity = F[i].complexity

HighComplexityWitness ==
    /\ Len(held) = 1
    /\ an.language = "python"
    /\ ~lib.cc.raises
    /\ Len(lib.cc.results) = 2
    /\ lib.cc.results[1].complexity = 10
    /\ lib.cc.results[2].complexity = 11
    /\ Len(SelectSeq(issues, IsHighComplexity)) = 1

\* C10: once get_analysis_summary has returned a summary, no later call on
\* the analyzer changes the issue list of that summary.
SummaryIssuesFrozen == [][held # <<>> => issues' = issues]_vars

---------------------------------------------------------------------------
(* Properties of the service (Spec) *)

Blank(text) == \A i \in 1..Len(text) : text[i] = " " \/ text[i] = NL

\* a body that does not validate: code missing, null, not a string or
\* blank, language blank, or use_ai not a boolean
InvalidBody(req) ==
    \/ req.code.kind # "text"
    \/ Blank(req.code.text)
    \/ (req.language.kind = "text" /\ req.language.text = "")
    \/ req.use_ai \notin {"absent", "true", "false"}

AsksForAi(req) == req.use_ai \in {"absent", "true"}

FailedAi == {"init", "call", "parse"}

\* the step is a POST /review/ that persisted exactly one new record
PersistsOne ==
    /\ Len(db') = Len(db) + 1
    /\ \A i \in 1..Len(db) : db'[i] = db[i]
    /\ resp'.status = 201
    /\ resp'.body.id = db'[Len(db')].id
    /\ resp'.body.ai_feedback = db'[Len(db')].ai_feedback

\* C2 as claimed: whenever the text generation of a valid use_ai submission
\* fails, at client construction or later, the request returns 201, one
\* record is persisted and ai_feedback is "AI Review unavailable: " followed
\* by the error message.
AiFailureAlwaysUnavailable ==
    [][(eff'.op = "review_code" /\ eff'.ai.stage \in FailedAi) =>
           /\ PersistsOne
           /\ resp'.body.ai_feedback = <<"AI Review unavailable: ", eff'.ai.msg>>]_vars

\* C2 as amended: the request returns 201 and one record is persisted;
\* ai_feedback is "AI Review unavailable: " and the message when the request
\* to the provider or the reading of its response fails, and
\* "AI review not available: " and the message when the client cannot be
\* constructed.
AiFailureDegrades ==
    [][(eff'.op = "review_code" /\ eff'.ai.stage \in FailedAi) =>
           /\ PersistsOne
           /\ resp'.body.ai_feedback =
                  <<IF eff'.ai.stage = "init" THEN "AI review not available: "
                    ELSE "AI Review unavailable: ",
                    eff'.ai.msg>>]_vars

AiFailureWitness ==
    /\ Len(db) = 2
    /\ eff.op = "review_code"
    /\ eff.ai.stage = "init"
    /\ resp.status = 201
    /\ db[1].ai_feedback = <<"AI Review unavailable: ", "Connection error.">>
    /\ db[2].ai_feedback = <<"AI review not available: ", "api_key must be set">>

\* C3: a POST /review/ whose body does not validate returns 400 and leaves the
\* table as it was; no analysis runs and the provider is not called.
InvalidBodyRejected ==
    [][(eff'.op = "review_code" /\ InvalidBody(eff'.req)) =>
           /\ db' = db
           /\ resp'.status = 400
           /\ resp'.body # {}
           /\ eff'.analysed = 0
           /\ eff'.aiCalls = 0]_vars

InvalidBodyWitness ==
    /\ Len(db) = 1
    /\ eff.op = "review_code"
    /\ eff.req.code.kind = "text"
    /\ Blank(eff.req.code.text)
    /\ resp.status = 400
    /\ resp.body = {<<"code", "blank">>}

\* C7: a valid submission with use_ai false makes no call to the provider
\* and its ai_feedback, in the record and in the response, is empty; one
\* with use_ai true makes at most one call, also when the call fails.
AtMostOneAiCall ==
    (eff.op = "review_code" /\ ~InvalidBody(eff.req)) =>
        /\ resp.status = 201
        /\ ~AsksForAi(eff.req) =>
               /\ eff.aiCalls = 0
               /\ resp.body.ai_feedback = <<>>
               /\ db[Len(db)].ai_feedback = <<>>
        /\ AsksForAi(eff.req) => eff.aiCalls <= 1

AtMostOneAiCallWitness ==
    /\ eff.op = "review_code"
    /\ AsksForAi(eff.req)
    /\ eff.ai.stage = "call"
    /\ eff.aiCalls = 1
    /\ resp.status = 201

\* C8: GET /reviews/ returns the min(20, n) most recently persisted records in
\* the reverse of persistence order, their created_at strictly decreasing
\* down the list.
HistoryNewestFirst ==
    eff.op = "get_review_history" =>
        LET n == IF Len(db) < 20 THEN Len(db) ELSE 20
        IN  /\ Len(resp.body) = n
            /\ \A k \in 1..n : resp.body[k].id = db[Len(db) + 1 - k].id
            /\ \A k \in 1..(n - 1) :
                   resp.body[k].created_at > resp.body[k + 1].created_at

\* C9: no request changes or removes a record once created; the GET requests
\* leave the table as it was; GET /review/{id}/ asked twice in a row answers
\* the same, and answers 404 "Review not found" for an id never created.
AppendOnlyLog ==
    [][/\ Len(db') >= Len(db)
       /\ \A i \in 1..Len(db) : db'[i] = db[i]
       /\ eff'.op \in {"get_review_history", "get_review_detail", "health_check"}
              => db' = db
       /\ (eff.op = "get_review_detail" /\ eff'.op = "get_review_detail"
             /\ eff'.id = eff.id) => resp' = resp
       /\ (eff'.op = "get_review_detail" /\ eff'.id > Len(db)) =>
              resp' = [status |-> 404, body |-> [error |-> "Review not found"]]
       /\ (eff'.op = "get_review_detail" /\ eff'.id <= Len(db)) =>
              (resp'.status = 200 /\ resp'.body.id = eff'.id)]_vars

AppendOnlyWitness ==
    /\ Len(db) = 2
    /\ db[1].id = 1
    /\ db[2].id = 2
    /\ eff.op = "get_review_detail"
    /\ eff.id = 1
    /\ resp.status = 200
    /\ resp.body.code = db[1].code
    /\ resp.body.created_at = db[1].created_at

====
